---- MODULE Spec2Model ----
(***************************************************************************)
(* Model of scripts/generate-summaries.mjs: the summary-enrichment         *)
(* pipeline of molt-daily.  One run scans the snapshot documents, indexes  *)
(* the posts by identity, selects the posts that need a summary, calls the *)
(* generation endpoint for them in batches of BATCH_SIZE and writes each   *)
(* result back into every document that holds the post.                    *)
(*                                                                         *)
(* A text is a sequence of one-character strings.  A document is a record  *)
(* of the three feed buckets; the disk maps every file to its document.    *)
(* The JavaScript runs on one thread: the code between two awaits is one   *)
(* atomic step, so every action below is one such stretch of code.         *)
(***************************************************************************)
EXTENDS Integers, Sequences, FiniteSets, TLC

(***************************************************************************)
(* Program constants.                                                      *)
(***************************************************************************)
BATCH_SIZE == 3
MIN_CONTENT_LENGTH == 50
\* the attempts of fetchWithRetry, the retry loop of the feed-fetching script
RETRIES == 3

(***************************************************************************)
(* Bounds of the model.                                                    *)
(***************************************************************************)
\* post identities are 1..NumIds
NumIds == 4

(***************************************************************************)
(* Texts.                                                                  *)
(***************************************************************************)
\* the value of a field that is not there
undefined == <<"undefined">>

\* JavaScript truthiness of a string-or-undefined field
Truthy(s) == s # undefined /\ s # <<>>

NL == "\n"
\* the string '\n---\n' of split(/\n---\n/) and join('\n---\n')
SEPARATOR == <<NL, "-", "-", "-", NL>>

IsSpace(c) == c \in {NL, " "}

RECURSIVE TrimStart(_)
TrimStart(s) ==
  IF s # <<>> /\ IsSpace(Head(s)) THEN TrimStart(Tail(s)) ELSE s

RECURSIVE TrimEnd(_)
TrimEnd(s) ==
  IF s # <<>> /\ IsSpace(s[Len(s)]) THEN TrimEnd(SubSeq(s, 1, Len(s) - 1)) ELSE s

\* String.prototype.trim
Trim(s) == TrimEnd(TrimStart(s))

\* does sep occur in s at position k
MatchAt(s, sep, k) ==
  /\ k + Len(sep) - 1 <= Len(s)
  /\ SubSeq(s, k, k + Len(sep) - 1) = sep

\* String.prototype.split on a fixed string: leftmost matches, not overlapping
RECURSIVE Split(_, _)
Split(s, sep) ==
  LET hits == {k \in 1..Len(s) : MatchAt(s, sep, k)}
  IN  IF hits = {} THEN <<s>>
      ELSE LET k == CHOOSE m \in hits : \A n \in hits : m <= n
           IN  <<SubSeq(s, 1, k - 1)>> \o Split(SubSeq(s, k + Len(sep), Len(s)), sep)

\* Array.prototype.join
RECURSIVE Join(_, _)
Join(parts, sep) ==
  IF parts = <<>> THEN <<>>
  ELSE IF Len(parts) = 1 THEN parts[1]
  ELSE parts[1] \o sep \o Join(Tail(parts), sep)

\* parseBilingualContent: the four fields, undefined where the code sets none
\* the parser that keeps parts[3] only as the English summary
parseNoRejoin(content) ==
  LET parts == Split(content, SEPARATOR)
  IN  IF Len(parts) >= 4 THEN
        [titleZh   |-> Trim(parts[1]),
         summaryZh |-> Trim(parts[2]),
         titleEn   |-> Trim(parts[3]),
         summaryEn |-> Trim(parts[4])]
      ELSE IF Len(parts) >= 2 THEN
        [titleZh   |-> undefined,
         summaryZh |-> Trim(parts[1]),
         titleEn   |-> undefined,
         summaryEn |-> Trim(parts[2])]
      ELSE
        [titleZh   |-> undefined,
         summaryZh |-> undefined,
         titleEn   |-> undefined,
         summaryEn |-> content]

parseBilingualContent(content) ==
  LET parts == Split(content, SEPARATOR)
  IN  IF Len(parts) >= 4 THEN
        [titleZh   |-> Trim(parts[1]),
         summaryZh |-> Trim(parts[2]),
         titleEn   |-> Trim(parts[3]),
         summaryEn |-> Trim(Join(SubSeq(parts, 4, Len(parts)), SEPARATOR))]
      ELSE IF Len(parts) >= 2 THEN
        [titleZh   |-> undefined,
         summaryZh |-> Trim(parts[1]),
         titleEn   |-> undefined,
         summaryEn |-> Trim(Join(SubSeq(parts, 2, Len(parts)), SEPARATOR))]
      ELSE
        [titleZh   |-> undefined,
         summaryZh |-> undefined,
         titleEn   |-> undefined,
         summaryEn |-> content]


(***************************************************************************)
(* Posts and documents.                                                    *)
(***************************************************************************)
\* a post without an identity: `!post.id` holds of it
NoId == 0
\* a post without a content field (content lengths are numbers otherwise)
NoContent == -1

Ids == 1..NumIds

\* data/latest.json and one file of data/archive/
LATEST == 1
ARCHIVE == 2
Files == {LATEST, ARCHIVE}
Feeds == <<"hot", "top", "new">>

\* a summary and titles written by an earlier run
OldSummary == <<"o", NL, "-", "-", "-", NL, "p">>
OldTitleZh == <<"q">>
OldTitleEn == <<"r">>

MkPost(id, content, old) ==
  [id       |-> id,
   content  |-> content,
   summary  |-> IF old THEN OldSummary ELSE undefined,
   title_zh |-> IF old THEN OldTitleZh ELSE undefined,
   title_en |-> IF old THEN OldTitleEn ELSE undefined]

\* kinds of file: a document with feeds, a JSON value without feeds, a file
\* that does not parse, no file
NoFeedsDoc == [kind |-> "nofeeds", hot |-> <<>>, top |-> <<>>, new |-> <<>>]
CorruptDoc == [kind |-> "corrupt", hot |-> <<>>, top |-> <<>>, new |-> <<>>]
AbsentDoc  == [kind |-> "absent",  hot |-> <<>>, top |-> <<>>, new |-> <<>>]

Bucket(doc, feed) ==
  IF feed = "hot" THEN doc.hot ELSE IF feed = "top" THEN doc.top ELSE doc.new

\* every bucket entry of a document, in the order hot, top, new
AllPosts(doc) == doc.hot \o doc.top \o doc.new

(***************************************************************************)
(* The documents a run can find on disk.  Every identity 1..n is placed by *)
(* a shape: its content length and its copies (bucket, already summarised) *)
(* in the latest and in the archive document.                              *)
(***************************************************************************)
Long == MIN_CONTENT_LENGTH + 10

Shape(name) ==
  CASE name = "plain"     -> [content |-> Long, latest |-> << <<"hot", FALSE>> >>, archive |-> <<>>]
    [] name = "both"      -> [content |-> Long,
                              latest  |-> << <<"hot", FALSE>>, <<"new", FALSE>> >>,
                              archive |-> << <<"top", FALSE>> >>]
    [] name = "stale"     -> [content |-> Long,
                              latest  |-> << <<"top", FALSE>> >>,
                              archive |-> << <<"hot", TRUE>> >>]
    [] name = "repdone"   -> [content |-> Long,
                              latest  |-> << <<"hot", TRUE>> >>,
                              archive |-> << <<"hot", FALSE>> >>]
    [] name = "done"      -> [content |-> Long,
                              latest  |-> << <<"hot", TRUE>> >>,
                              archive |-> << <<"new", TRUE>> >>]
    [] name = "short"     -> [content |-> MIN_CONTENT_LENGTH - 1,
                              latest  |-> <<>>,
                              archive |-> << <<"new", FALSE>> >>]
    [] name = "shortdone" -> [content |-> MIN_CONTENT_LENGTH - 1,
                              latest  |-> << <<"top", TRUE>> >>,
                              archive |-> <<>>]
    [] name = "nocontent" -> [content |-> NoContent,
                              latest  |-> << <<"top", FALSE>> >>,
                              archive |-> <<>>]
    [] name = "empty"     -> [content |-> 0,
                              latest  |-> << <<"new", FALSE>> >>,
                              archive |-> <<>>]
    [] name = "threshold" -> [content |-> MIN_CONTENT_LENGTH,
                              latest  |-> <<>>,
                              archive |-> << <<"top", FALSE>> >>]

SpecialShapes ==
  {"both", "stale", "repdone", "done", "short", "shortdone", "nocontent",
   "empty", "threshold"}

\* an anomaly <<what, where, how>>: identity `where` placed by shape `how`, a
\* post without identity in file `where`, or file `where` of kind `how`
Anomalies(n) ==
  ({"shape"} \X (1..n) \X SpecialShapes)
    \cup ({"noid"} \X Files \X {"hot"})
    \cup ({"kind"} \X Files \X {"nofeeds", "corrupt", "absent"})

ShapeOf(A, p) ==
  IF \E a \in A : a[1] = "shape" /\ a[2] = p
  THEN Shape((CHOOSE a \in A : a[1] = "shape" /\ a[2] = p)[3])
  ELSE Shape("plain")

CopiesIn(shape, file) == IF file = LATEST THEN shape.latest ELSE shape.archive

RECURSIVE CopiesToPosts(_, _, _, _)
CopiesToPosts(copies, feed, id, content) ==
  IF copies = <<>> THEN <<>>
  ELSE (IF Head(copies)[1] = feed
        THEN <<MkPost(id, content, Head(copies)[2])>> ELSE <<>>)
       \o CopiesToPosts(Tail(copies), feed, id, content)

\* the bucket `feed` of file `file`: the copies of identities p..n, in order
RECURSIVE BuildBucket(_, _, _, _, _)
BuildBucket(A, file, feed, p, n) ==
  IF p > n THEN <<>>
  ELSE CopiesToPosts(CopiesIn(ShapeOf(A, p), file), feed, p, ShapeOf(A, p).content)
       \o BuildBucket(A, file, feed, p + 1, n)

BuildDoc(A, file, n) ==
  IF \E a \in A : a[1] = "kind" /\ a[2] = file
  THEN LET k == (CHOOSE a \in A : a[1] = "kind" /\ a[2] = file)[3]
       IN  IF k = "nofeeds" THEN NoFeedsDoc
           ELSE IF k = "corrupt" THEN CorruptDoc ELSE AbsentDoc
  ELSE [kind |-> "ok",
        hot  |-> (IF <<"noid", file, "hot">> \in A
                  THEN <<MkPost(NoId, Long, FALSE)>> ELSE <<>>)
                 \o BuildBucket(A, file, "hot", 1, n),
        top  |-> BuildBucket(A, file, "top", 1, n),
        new  |-> BuildBucket(A, file, "new", 1, n)]

\* the identities 1..n for some n, all placed by the shape "plain" but for at
\* most one anomaly
InitialDisks ==
  {[f \in Files |-> BuildDoc(na[2], f, na[1])] :
     na \in {x \in (0..NumIds) \X ({{}} \cup {{a} : a \in Anomalies(NumIds)}) :
               \A a \in x[2] : a[1] = "shape" => a[2] <= x[1]}}

(***************************************************************************)
(* The state.                                                              *)
(***************************************************************************)
VARIABLES
  auth,          \* ANTHROPIC_AUTH_TOKEN is set
  disk,          \* file -> document
  pc,            \* "ready", "batch" (awaiting processBatch), "delay", "exited"
  entries,       \* main's entries: the index entries that need a summary
  i,             \* main's loop variable
  tasks,         \* the promises of the running batch, one per entry of the batch
  successCount,
  failCount,
  exitCode,      \* -1 while the process runs
  \* what the run has done so far (observations, read by no action's guard)
  disk0,         \* the disk when the run started
  calls,         \* identity -> requests sent to the generation endpoint
  saved,         \* identity -> files its write-back has saved
  answer,        \* identity -> the text its generation returned
  delays,        \* inter-batch delays taken
  topErr,        \* an error escaped main
  prevClean,     \* the run before this one ended with exit code 0 and no failure
  before,        \* the run before this one: was it killed, and its first disk
  \* the parser and the write-back applied to one text (pc = "text", "applied")
  raw,           \* the text
  fields,        \* parseBilingualContent(raw)
  sample,        \* a document
  rewritten,     \* the document after the write-back of post 1 with raw
  \* one call of fetchWithRetry of the fetch script (pc = "fetch")
  fetcher        \* where the call is, what it received, how long it waited

\* the variables of the parser's own specification
pureVars == <<raw, fields, sample, rewritten>>

vars ==
  <<auth, disk, pc, entries, i, tasks, successCount, failCount, exitCode,
    disk0, calls, saved, answer, delays, topErr, prevClean, before,
    raw, fields, sample, rewritten, fetcher>>

(***************************************************************************)
(* Snapshot store.                                                         *)
(***************************************************************************)
\* loadJsonFile: the document, AbsentDoc for null; a CorruptDoc makes it throw
loadJsonFile(path) == disk[path]

\* listAllDataFiles: latest.json first if it exists, then the archive files
listAllDataFiles ==
  SelectSeq(<<LATEST, ARCHIVE>>, LAMBDA f : disk[f].kind # "absent")

(***************************************************************************)
(* Post index and eligibility.                                             *)
(***************************************************************************)
\* postMap is a sequence of [post, files] in insertion order
HasKey(map, id) == \E k \in 1..Len(map) : map[k].post.id = id

\* the posts of one file, `postMap.set(post.id, ...)` at every occurrence: the
\* post kept is the one seen last
RECURSIVE IndexPostsLastSeen(_, _, _)
IndexPostsLastSeen(map, posts, file) ==
  IF posts = <<>> THEN map
  ELSE LET post == Head(posts)
           withKey == IF HasKey(map, post.id) THEN map
                      ELSE Append(map, [post |-> post, files |-> {}])
           added == [k \in 1..Len(withKey) |->
                       IF withKey[k].post.id = post.id
                       THEN [post |-> post, files |-> withKey[k].files \cup {file}]
                       ELSE withKey[k]]
       IN  IF post.id = NoId THEN IndexPostsLastSeen(map, Tail(posts), file)
           ELSE IndexPostsLastSeen(added, Tail(posts), file)

\* lines 82-89: the posts of one file
RECURSIVE IndexPosts(_, _, _)
IndexPosts(map, posts, file) ==
  IF posts = <<>> THEN map
  ELSE LET post == Head(posts)
           withKey == IF HasKey(map, post.id) THEN map
                      ELSE Append(map, [post |-> post, files |-> {}])
           added == [k \in 1..Len(withKey) |->
                       IF withKey[k].post.id = post.id
                       THEN [withKey[k] EXCEPT !.files = @ \cup {file}]
                       ELSE withKey[k]]
       IN  IF post.id = NoId THEN IndexPosts(map, Tail(posts), file)
           ELSE IndexPosts(added, Tail(posts), file)

\* lines 72-90: every file in turn
RECURSIVE IndexFiles(_, _)
IndexFiles(map, files) ==
  IF files = <<>> THEN map
  ELSE LET data == loadJsonFile(Head(files))
       IN  IF data.kind # "ok" THEN IndexFiles(map, Tail(files))
           ELSE IndexFiles(IndexPosts(map, AllPosts(data), Head(files)), Tail(files))

\* the filter without the test of the content's length
NeedsSummaryAnyLength(post) ==
  /\ ~Truthy(post.summary)
  /\ ~(post.content = NoContent \/ post.content = 0)

\* the filter without the test of the summary
NeedsSummaryAlways(post) ==
  ~(post.content = NoContent \/ post.content = 0 \/ post.content < MIN_CONTENT_LENGTH)

\* lines 96-97: the filter of an index entry's post
NeedsSummary(post) ==
  /\ ~Truthy(post.summary)
  /\ ~(post.content = NoContent \/ post.content = 0 \/ post.content < MIN_CONTENT_LENGTH)

\* one entry per occurrence instead of one per identity
RECURSIVE OccurrencesOf(_)
OccurrencesOf(files) ==
  IF files = <<>> THEN <<>>
  ELSE LET data == loadJsonFile(Head(files))
           here == IF data.kind # "ok" THEN <<>>
                   ELSE SelectSeq(AllPosts(data), LAMBDA q : q.id # NoId)
       IN  [k \in 1..Len(here) |-> [post |-> here[k], files |-> {Head(files)}]]
           \o OccurrencesOf(Tail(files))

buildPostMapNoDedup(files) == OccurrencesOf(files)

\* lines 70-90: postMap, one entry per identity
buildPostMap(files) == IndexFiles(<<>>, files)

collectPostsNeedingSummary(files) ==
  SelectSeq(buildPostMap(files), LAMBDA e : NeedsSummary(e.post))

\* loadJsonFile throws inside collectPostsNeedingSummary
ScanThrows(files) ==
  \E k \in 1..Len(files) : loadJsonFile(files[k]).kind = "corrupt"

(***************************************************************************)
(* Write-back.                                                             *)
(***************************************************************************)
\* lines 176-187 for one bucket entry
\* the write-back that joins the two summaries whatever the parser found
WritePostJoined(post, postId, content) ==
  LET r == parseBilingualContent(content)
  IN  IF post.id # postId THEN post
      ELSE [post EXCEPT
              !.title_zh = IF Truthy(r.titleZh) THEN r.titleZh ELSE @,
              !.title_en = IF Truthy(r.titleEn) THEN r.titleEn ELSE @,
              !.summary  = r.summaryZh \o SEPARATOR \o r.summaryEn]

\* the write-back that stores the English summary first
WritePostSwapped(post, postId, content) ==
  LET r == parseBilingualContent(content)
  IN  IF post.id # postId THEN post
      ELSE [post EXCEPT
              !.title_zh = IF Truthy(r.titleZh) THEN r.titleZh ELSE @,
              !.title_en = IF Truthy(r.titleEn) THEN r.titleEn ELSE @,
              !.summary  = IF Truthy(r.summaryZh) /\ Truthy(r.summaryEn)
                           THEN r.summaryEn \o SEPARATOR \o r.summaryZh
                           ELSE content]

WritePost(post, postId, content) ==
  LET r == parseBilingualContent(content)
  IN  IF post.id # postId THEN post
      ELSE [post EXCEPT
              !.title_zh = IF Truthy(r.titleZh) THEN r.titleZh ELSE @,
              !.title_en = IF Truthy(r.titleEn) THEN r.titleEn ELSE @,
              !.summary  = IF Truthy(r.summaryZh) /\ Truthy(r.summaryEn)
                           THEN r.summaryZh \o SEPARATOR \o r.summaryEn
                           ELSE content]

WriteBucket(posts, postId, content) ==
  [k \in 1..Len(posts) |-> WritePost(posts[k], postId, content)]

\* a write-back that saves a new document made of the feeds only
WriteDocFeedsOnly(data, postId, content) ==
  [kind |-> data.kind,
   hot  |-> WriteBucket(data.hot, postId, content),
   top  |-> WriteBucket(data.top, postId, content),
   new  |-> WriteBucket(data.new, postId, content)]

\* lines 172-189: the document after the loop over its feeds
WriteDoc(data, postId, content) ==
  [data EXCEPT !.hot = WriteBucket(@, postId, content),
               !.top = WriteBucket(@, postId, content),
               !.new = WriteBucket(@, postId, content)]

\* lines 171, 186: the flag `changed` after the loop
Changed(data, postId) ==
  \E k \in 1..Len(AllPosts(data)) : AllPosts(data)[k].id = postId

\* the loop over the files left after the first save
SavedFilesFirstOnly(postId, files) ==
  LET all == {f \in files : loadJsonFile(f).kind = "ok" /\ Changed(loadJsonFile(f), postId)}
  IN  {f \in all : \A g \in all : f <= g}

\* lines 167-193: the files that writeSummaryToFiles saves
SavedFiles(postId, files) ==
  {f \in files : loadJsonFile(f).kind = "ok" /\ Changed(loadJsonFile(f), postId)}

\* the copy of the file read when the run started
ReloadedStale(file) == disk0[file]

\* line 168: the document that writeSummaryToFiles mutates is the file as it
\* is now
Reloaded(file) == loadJsonFile(file)

\* a write-back that keeps the summary in memory and saves nothing yet
writeSummaryDeferred(postId, content, files) == disk

\* writeSummaryToFiles: the disk after it
writeSummaryToFiles(postId, content, files) ==
  [f \in Files |->
     IF f \in SavedFiles(postId, files)
     THEN WriteDoc(Reloaded(f), postId, content)
     ELSE disk[f]]


\* lines 167-193, the loop over the files stopped at the file `stop`: the
\* files before it, in the order of the set (the order of listAllDataFiles),
\* have been saved
SavedBefore(postId, files, stop) == {f \in SavedFiles(postId, files) : f < stop}

\* writeSummaryToFiles that does not get past `stop`: saveJsonFile (line 192)
\* throws there and nothing catches it inside the loop, or the process ends
\* between two saves
writeSummaryInterrupted(postId, content, files, stop) ==
  [f \in Files |->
     IF f \in SavedBefore(postId, files, stop)
     THEN WriteDoc(Reloaded(f), postId, content)
     ELSE disk[f]]


(***************************************************************************)
(* The generation endpoint.                                                *)
(***************************************************************************)
\* a response in the prompt's format: title, summary, title, summary
FullResponse ==
  <<"T">> \o SEPARATOR \o <<"Z">> \o SEPARATOR \o <<"U">> \o SEPARATOR \o <<"E">>
\* a response without any separator
PlainResponse == <<"R">>

Responses == {FullResponse, PlainResponse}

\* the reasons generateSummary throws with: `API <status>: ...` for a status
\* that is not ok (lines 133-136), 'Empty response from API' (line 140); a
\* fetch that rejects (line 124) rejects the task the same way
Reasons == {"API 429", "API 500", "Empty response from API"}

(***************************************************************************)
(* Batches.                                                                *)
(***************************************************************************)
\* entries.slice(from, from + BATCH_SIZE + 1)
BatchAtOneMore(es, from) ==
  SubSeq(es, from + 1, IF from + BATCH_SIZE + 1 < Len(es) THEN from + BATCH_SIZE + 1 ELSE Len(es))

\* entries.slice(from, from + BATCH_SIZE), from counted from 0
BatchAt(es, from) ==
  SubSeq(es, from + 1, IF from + BATCH_SIZE < Len(es) THEN from + BATCH_SIZE ELSE Len(es))

\* processBatch up to its await: every task of the batch has run up to the
\* await of fetch (line 124), so one request per entry is on its way
Dispatched(batch) == [k \in 1..Len(batch) |-> [state |-> "fetching", reason |-> ""]]

RequestsAfter(cs, batch) ==
  [p \in Ids |-> cs[p] + Cardinality({k \in 1..Len(batch) : batch[k].post.id = p})]

\* Promise.all would go on at the first rejection
AllOrFirstRejected(ts) ==
  \/ \A k \in 1..Len(ts) : ts[k].state = "fulfilled"
  \/ \E k \in 1..Len(ts) : ts[k].state = "rejected"

\* Promise.allSettled (line 198): every promise of the batch has settled
AllSettled(ts) == \A k \in 1..Len(ts) : ts[k].state # "fetching"

\* the results counted the wrong way round: a rejection as a success
CountResultsSwapped(ts, st) ==
  Cardinality({k \in 1..Len(ts) : ts[k].state \notin {st, "fetching"}})

\* lines 231-237: the results counted
CountResults(ts, st) == Cardinality({k \in 1..Len(ts) : ts[k].state = st})

\* a failure of any post taken for a failure of the run
ExitCodeAnyFailure(succ, fail) == IF fail > 0 THEN 1 ELSE 0

\* lines 247-250, and the return of main
ExitCode(succ, fail) == IF succ = 0 /\ fail > 0 THEN 1 ELSE 0

\* fetchWithRetry is not called
NoFetch ==
  [url |-> "", at |-> "idle", i |-> 0, statuses |-> <<>>, waits |-> <<>>,
   received |-> "", result |-> "", error |-> ""]

\* no run came before this one, or it was not killed
NoRunBefore == [killed |-> FALSE, disk |-> [f \in Files |-> AbsentDoc]]
\* the parser has not run
NoFields ==
  [titleZh |-> undefined, summaryZh |-> undefined,
   titleEn |-> undefined, summaryEn |-> undefined]

NoCalls == [p \in Ids |-> 0]
NoSaves == [p \in Ids |-> {}]
NoAnswers == [p \in Ids |-> undefined]

(***************************************************************************)
(* Init: a process about to run on some documents.                         *)
(***************************************************************************)
Init ==
  /\ auth \in BOOLEAN
  /\ disk \in InitialDisks
  /\ pc = "ready"
  /\ entries = <<>>
  /\ i = 0
  /\ tasks = <<>>
  /\ successCount = 0
  /\ failCount = 0
  /\ exitCode = -1
  /\ disk0 = disk
  /\ calls = NoCalls
  /\ saved = NoSaves
  /\ answer = NoAnswers
  /\ delays = 0
  /\ topErr = FALSE
  /\ prevClean = FALSE
  /\ before = NoRunBefore
  /\ raw = <<>>
  /\ fields = NoFields
  /\ sample = AbsentDoc
  /\ rewritten = AbsentDoc
  /\ fetcher = NoFetch

(***************************************************************************)
(* Actions.                                                                *)
(***************************************************************************)
\* line 24: !AUTH_TOKEN; the variant goes on without a token
TokenCheckSkipped == FALSE

TokenMissing == ~auth

\* line 240: another batch follows the batch at `from`; the variant also
\* waits after the last batch when it is full
MoreBatchesOrFull(from, es) == from + BATCH_SIZE <= Len(es)

MoreBatches(from, es) == from + BATCH_SIZE < Len(es)

Exit(code) ==
  /\ pc' = "exited"
  /\ exitCode' = code
  /\ tasks' = <<>>

\* lines 24-27
MissingToken ==
  /\ pc = "ready"
  /\ TokenMissing
  /\ Exit(1)
  /\ UNCHANGED <<auth, disk, entries, i, successCount, failCount,
                 disk0, calls, saved, answer, delays, topErr, prevClean>>
  /\ UNCHANGED <<before, pureVars, fetcher>>

\* main, lines 213-214, when a file does not parse: lines 253-256
ScanFails ==
  /\ pc = "ready"
  /\ ~TokenMissing
  /\ ScanThrows(listAllDataFiles)
  /\ Exit(1)
  /\ topErr' = TRUE
  /\ UNCHANGED <<auth, disk, entries, i, successCount, failCount,
                 disk0, calls, saved, answer, delays, prevClean>>
  /\ UNCHANGED <<before, pureVars, fetcher>>

\* main, lines 213-219
NothingToDo ==
  /\ pc = "ready"
  /\ ~TokenMissing
  /\ ~ScanThrows(listAllDataFiles)
  /\ collectPostsNeedingSummary(listAllDataFiles) = <<>>
  /\ Exit(0)
  /\ UNCHANGED <<auth, disk, entries, i, successCount, failCount,
                 disk0, calls, saved, answer, delays, topErr, prevClean>>
  /\ UNCHANGED <<before, pureVars, fetcher>>

\* main, lines 213-230, up to the await of the first processBatch
StartRun ==
  /\ pc = "ready"
  /\ ~TokenMissing
  /\ ~ScanThrows(listAllDataFiles)
  /\ LET found == collectPostsNeedingSummary(listAllDataFiles)
     IN  /\ found # <<>>
         /\ entries' = found
         /\ tasks' = Dispatched(BatchAt(found, 0))
         /\ calls' = RequestsAfter(calls, BatchAt(found, 0))
  /\ i' = 0
  /\ pc' = "batch"
  /\ UNCHANGED <<auth, disk, successCount, failCount, exitCode,
                 disk0, saved, answer, delays, topErr, prevClean>>
  /\ UNCHANGED <<before, pureVars, fetcher>>

\* a task of the batch after its fetch: lines 138-141 and 203-205
TaskFulfilled(k, content) ==
  /\ pc = "batch"
  /\ k \in 1..Len(tasks)
  /\ tasks[k].state = "fetching"
  /\ LET entry == entries[i + k]
     IN  /\ disk' = writeSummaryToFiles(entry.post.id, content, entry.files)
         /\ saved' = [saved EXCEPT ![entry.post.id] =
                         @ \cup SavedFiles(entry.post.id, entry.files)]
         /\ answer' = [answer EXCEPT ![entry.post.id] = content]
  /\ tasks' = [tasks EXCEPT ![k].state = "fulfilled"]
  /\ UNCHANGED <<auth, pc, entries, i, successCount, failCount, exitCode,
                 disk0, calls, delays, topErr, prevClean>>
  /\ UNCHANGED <<before, pureVars, fetcher>>

\* a task of the batch after its fetch: lines 133-136 or 140
TaskRejected(k, reason) ==
  /\ pc = "batch"
  /\ k \in 1..Len(tasks)
  /\ tasks[k].state = "fetching"
  /\ tasks' = [tasks EXCEPT ![k] = [state |-> "rejected", reason |-> reason]]
  /\ UNCHANGED <<auth, disk, pc, entries, i, successCount, failCount, exitCode,
                 disk0, calls, saved, answer, delays, topErr, prevClean>>
  /\ UNCHANGED <<before, pureVars, fetcher>>

\* main, lines 230-242: the batch has settled and another one follows
BatchThenDelay ==
  /\ pc = "batch"
  /\ AllSettled(tasks)
  /\ MoreBatches(i, entries)
  /\ successCount' = successCount + CountResults(tasks, "fulfilled")
  /\ failCount' = failCount + CountResults(tasks, "rejected")
  /\ tasks' = <<>>
  /\ pc' = "delay"
  /\ UNCHANGED <<auth, disk, entries, i, exitCode,
                 disk0, calls, saved, answer, delays, topErr, prevClean>>
  /\ UNCHANGED <<before, pureVars, fetcher>>

\* main, lines 226-230: the delay is over, the next batch is dispatched
NextBatch ==
  /\ pc = "delay"
  /\ i' = i + BATCH_SIZE
  /\ tasks' = Dispatched(BatchAt(entries, i + BATCH_SIZE))
  /\ calls' = RequestsAfter(calls, BatchAt(entries, i + BATCH_SIZE))
  /\ delays' = delays + 1
  /\ pc' = "batch"
  /\ UNCHANGED <<auth, disk, entries, successCount, failCount, exitCode,
                 disk0, saved, answer, topErr, prevClean>>
  /\ UNCHANGED <<before, pureVars, fetcher>>

\* main, lines 230-251: the last batch has settled
BatchThenExit ==
  /\ pc = "batch"
  /\ AllSettled(tasks)
  /\ ~MoreBatches(i, entries)
  /\ successCount' = successCount + CountResults(tasks, "fulfilled")
  /\ failCount' = failCount + CountResults(tasks, "rejected")
  /\ Exit(ExitCode(successCount', failCount'))
  /\ UNCHANGED <<auth, disk, entries, i,
                 disk0, calls, saved, answer, delays, topErr, prevClean>>
  /\ UNCHANGED <<before, pureVars, fetcher>>

\* the script is run again on the documents the run before left
RunAgain ==
  /\ pc = "exited"
  /\ pc' = "ready"
  /\ entries' = <<>>
  /\ i' = 0
  /\ tasks' = <<>>
  /\ successCount' = 0
  /\ failCount' = 0
  /\ exitCode' = -1
  /\ disk0' = disk
  /\ calls' = NoCalls
  /\ saved' = NoSaves
  /\ answer' = NoAnswers
  /\ delays' = 0
  /\ topErr' = FALSE
  /\ prevClean' = (exitCode = 0 /\ failCount = 0)
  /\ before' = (IF exitCode = 137
                 THEN [killed |-> TRUE, disk |-> disk0]
                 ELSE NoRunBefore)
  /\ UNCHANGED <<auth, disk, pureVars, fetcher>>

Next ==
  \/ MissingToken
  \/ ScanFails
  \/ NothingToDo
  \/ StartRun
  \/ \E k \in 1..BATCH_SIZE : \E content \in Responses : TaskFulfilled(k, content)
  \/ \E k \in 1..BATCH_SIZE : \E reason \in Reasons : TaskRejected(k, reason)
  \/ BatchThenDelay
  \/ NextBatch
  \/ BatchThenExit

\* one run of the script
Spec == Init /\ [][Next]_vars

\* runs of the script one after the other
NextRerun ==
  \/ Next
  \/ RunAgain

SpecRerun == Init /\ [][NextRerun]_vars

\* a task of the batch whose write-back throws at the save of `stop` (line
\* 192, writeFileSync): the exception leaves the loop of lines 167-193 and
\* the task (line 205), which is rejected
TaskWriteFails(k, content, stop) ==
  /\ pc = "batch"
  /\ k \in 1..Len(tasks)
  /\ tasks[k].state = "fetching"
  /\ LET entry == entries[i + k]
     IN  /\ stop \in SavedFiles(entry.post.id, entry.files)
         /\ disk' = writeSummaryInterrupted(entry.post.id, content, entry.files, stop)
         /\ saved' = [saved EXCEPT ![entry.post.id] =
                         @ \cup SavedBefore(entry.post.id, entry.files, stop)]
  /\ tasks' = [tasks EXCEPT ![k] = [state |-> "rejected", reason |-> "save failed"]]
  /\ UNCHANGED <<auth, pc, entries, i, successCount, failCount, exitCode,
                 disk0, calls, answer, delays, topErr, prevClean>>
  /\ UNCHANGED <<before, pureVars, fetcher>>

\* one run of the script on a disk whose writes can fail
NextIO ==
  \/ Next
  \/ \E k \in 1..BATCH_SIZE : \E content \in Responses : \E stop \in Files :
        TaskWriteFails(k, content, stop)

SpecIO == Init /\ [][NextIO]_vars

\* the process is ended from outside (a signal) while it scans, waits for
\* the answers of a batch or waits between two batches
Killed ==
  /\ pc \in {"ready", "batch", "delay"}
  /\ Exit(137)
  /\ UNCHANGED <<auth, disk, entries, i, successCount, failCount,
                 disk0, calls, saved, answer, delays, topErr, prevClean>>
  /\ UNCHANGED <<before, pureVars, fetcher>>

\* the process is ended from outside inside writeSummaryToFiles, before the
\* save of `stop` (line 192)
KilledInWriteBack(k, content, stop) ==
  /\ pc = "batch"
  /\ k \in 1..Len(tasks)
  /\ tasks[k].state = "fetching"
  /\ LET entry == entries[i + k]
     IN  /\ stop \in SavedFiles(entry.post.id, entry.files)
         /\ disk' = writeSummaryInterrupted(entry.post.id, content, entry.files, stop)
         /\ saved' = [saved EXCEPT ![entry.post.id] =
                         @ \cup SavedBefore(entry.post.id, entry.files, stop)]
  /\ Exit(137)
  /\ UNCHANGED <<auth, entries, i, successCount, failCount,
                 disk0, calls, answer, delays, topErr, prevClean>>
  /\ UNCHANGED <<before, pureVars, fetcher>>

\* runs of the script one after the other, any of which can be killed
NextKill ==
  \/ NextRerun
  \/ Killed
  \/ \E k \in 1..BATCH_SIZE : \E content \in Responses : \E stop \in Files :
        KilledInWriteBack(k, content, stop)

SpecKill == Init /\ [][NextKill]_vars

(***************************************************************************)
(* The parser and the write-back of one document, applied to one text.     *)
(***************************************************************************)
\* a text is made of at most MaxPieces pieces: a separator, a letter, a
\* line break, three dashes, a space
MaxPieces == 6

Pieces == {SEPARATOR, <<"a">>, <<NL>>, <<"-", "-", "-">>, <<" ">>}

RECURSIVE TextsOf(_)
TextsOf(n) ==
  IF n = 0 THEN {<<>>}
  ELSE LET shorter == TextsOf(n - 1)
       IN  shorter \cup {t \o piece : t \in shorter, piece \in Pieces}

\* a response in the prompt's format whose English summary is the text en
InFormat(en) ==
  <<"T">> \o SEPARATOR \o <<"Z">> \o SEPARATOR \o <<"U">> \o SEPARATOR \o en

\* the texts of at most MaxPieces pieces, and the responses in the prompt's
\* format whose English summary has fewer pieces than that
Texts == TextsOf(MaxPieces) \cup {InFormat(en) : en \in TextsOf(MaxPieces - 1)}

\* a post of the sample document: the fields of MkPost and a title
SamplePost(id, old) ==
  [id       |-> id,
   title    |-> <<"t">>,
   content  |-> Long,
   summary  |-> IF old THEN OldSummary ELSE undefined,
   title_zh |-> IF old THEN OldTitleZh ELSE undefined,
   title_en |-> IF old THEN OldTitleEn ELSE undefined]

\* a document with post 1 twice, once fresh and once with a summary and
\* titles, with two other posts, and with the fields beside the feeds
SampleDoc ==
  [kind      |-> "ok",
   date      |-> <<"d">>,
   fetchedAt |-> <<"f">>,
   stats     |-> [hotCount |-> 2, topCount |-> 1],
   hot       |-> <<SamplePost(1, FALSE), SamplePost(2, TRUE)>>,
   top       |-> <<SamplePost(1, TRUE)>>,
   new       |-> <<SamplePost(3, FALSE)>>]

InitPure ==
  /\ raw \in Texts
  /\ fields = NoFields
  /\ sample = SampleDoc
  /\ rewritten = SampleDoc
  /\ fetcher = NoFetch
  /\ pc = "text"
  /\ auth = TRUE
  /\ disk = [f \in Files |-> AbsentDoc]
  /\ disk0 = [f \in Files |-> AbsentDoc]
  /\ entries = <<>>
  /\ i = 0
  /\ tasks = <<>>
  /\ successCount = 0
  /\ failCount = 0
  /\ exitCode = -1
  /\ calls = NoCalls
  /\ saved = NoSaves
  /\ answer = NoAnswers
  /\ delays = 0
  /\ topErr = FALSE
  /\ prevClean = FALSE
  /\ before = NoRunBefore

\* line 165 and lines 144-162
ParseText ==
  /\ pc = "text"
  /\ pc' = "parsed"
  /\ fields' = parseBilingualContent(raw)
  /\ UNCHANGED <<auth, disk, entries, i, tasks, successCount, failCount, exitCode,
                 disk0, calls, saved, answer, delays, topErr, prevClean, before,
                 raw, sample, rewritten, fetcher>>

\* lines 172-189 for post 1; generateSummary hands on no empty text (line 140)
WriteText ==
  /\ pc = "parsed"
  /\ raw # <<>>
  /\ pc' = "written"
  /\ rewritten' = WriteDoc(sample, 1, raw)
  /\ UNCHANGED <<auth, disk, entries, i, tasks, successCount, failCount, exitCode,
                 disk0, calls, saved, answer, delays, topErr, prevClean, before,
                 raw, fields, sample, fetcher>>

NextPure ==
  \/ ParseText
  \/ WriteText

SpecPure == InitPure /\ [][NextPure]_vars

(***************************************************************************)
(* fetchWithRetry of the fetch script.                                     *)
(***************************************************************************)
\* the four calls of main: the feeds hot, top, new and the submolts
Urls == {"posts?sort=hot", "posts?sort=top", "posts?sort=new", "submolts"}

\* the statuses of a response; res.ok is a status from 200 to 299
Statuses == {200, 201, 401, 404, 429, 500, 503}

Ok(status) == status \in 200..299

\* what res.json() gives: an object with the list, or the list
Bodies == {"object", "list"}

\* 2^n
RECURSIVE Pow2(_)
Pow2(n) == IF n = 0 THEN 1 ELSE 2 * Pow2(n - 1)

\* a wait that grows by 2000 ms at every retry
BackoffLinear(n) == (n + 1) * 2000

\* line 33: Math.pow(2, i) * 2000
Backoff(n) == Pow2(n) * 2000

InitFetch ==
  /\ \E url \in Urls : fetcher = [NoFetch EXCEPT !.url = url, !.at = "request"]
  /\ pc = "fetch"
  /\ raw = <<>>
  /\ fields = NoFields
  /\ sample = AbsentDoc
  /\ rewritten = AbsentDoc
  /\ auth = TRUE
  /\ disk = [f \in Files |-> AbsentDoc]
  /\ disk0 = [f \in Files |-> AbsentDoc]
  /\ entries = <<>>
  /\ i = 0
  /\ tasks = <<>>
  /\ successCount = 0
  /\ failCount = 0
  /\ exitCode = -1
  /\ calls = NoCalls
  /\ saved = NoSaves
  /\ answer = NoAnswers
  /\ delays = 0
  /\ topErr = FALSE
  /\ prevClean = FALSE
  /\ before = NoRunBefore

\* what no step of fetchWithRetry touches
RestUnchanged ==
  UNCHANGED <<auth, disk, pc, entries, i, tasks, successCount, failCount, exitCode,
              disk0, calls, saved, answer, delays, topErr, prevClean, before,
              raw, fields, sample, rewritten>>

\* lines 30-37: the request is answered 429; the wait is set
RateLimited ==
  /\ pc = "fetch"
  /\ fetcher.at = "request"
  /\ fetcher' = [fetcher EXCEPT !.statuses = Append(@, 429),
                                !.waits = Append(@, Backoff(fetcher.i)),
                                !.at = "waiting"]
  /\ RestUnchanged

\* lines 35-36 and 29: the wait is over; the loop goes on while i < retries,
\* and line 45 throws after it
WaitOver ==
  /\ pc = "fetch"
  /\ fetcher.at = "waiting"
  /\ fetcher' = IF fetcher.i + 1 < RETRIES
                THEN [fetcher EXCEPT !.i = @ + 1, !.at = "request"]
                ELSE [fetcher EXCEPT !.i = @ + 1, !.at = "thrown",
                                     !.error = "Max retries reached"]
  /\ RestUnchanged

\* lines 39-41: a status that is neither 429 nor ok
HttpError(status) ==
  /\ pc = "fetch"
  /\ fetcher.at = "request"
  /\ status # 429
  /\ ~Ok(status)
  /\ fetcher' = [fetcher EXCEPT !.statuses = Append(@, status),
                                !.at = "thrown",
                                !.error = "HTTP"]
  /\ RestUnchanged

\* line 43: the response is ok and its body is returned
Success(status, body) ==
  /\ pc = "fetch"
  /\ fetcher.at = "request"
  /\ Ok(status)
  /\ fetcher' = [fetcher EXCEPT !.statuses = Append(@, status),
                                !.received = body,
                                !.result = body,
                                !.at = "returned"]
  /\ RestUnchanged

\* line 30: fetch rejects (no connection) and nothing catches it
FetchRejected ==
  /\ pc = "fetch"
  /\ fetcher.at = "request"
  /\ fetcher' = [fetcher EXCEPT !.at = "thrown", !.error = "fetch failed"]
  /\ RestUnchanged

NextFetch ==
  \/ RateLimited
  \/ WaitOver
  \/ \E status \in Statuses : HttpError(status)
  \/ \E status \in Statuses : \E body \in Bodies : Success(status, body)
  \/ FetchRejected

SpecFetch == InitFetch /\ [][NextFetch]_vars


(***************************************************************************)
(* What the properties speak of, defined on the documents themselves and   *)
(* not through the index the code builds.                                  *)
(***************************************************************************)
\* the positions of identity p in the bucket entries of a document
PositionsOf(doc, p) == {k \in 1..Len(AllPosts(doc)) : AllPosts(doc)[k].id = p}

\* the documents that hold a bucket entry of identity p
DocsOf(docs, p) == {f \in Files : docs[f].kind = "ok" /\ PositionsOf(docs[f], p) # {}}

Least(S) == CHOOSE m \in S : \A n \in S : m <= n

\* the first occurrence of p: document order, then hot, top, new, then position
FirstCopy(docs, p) ==
  LET f == Least(DocsOf(docs, p))
  IN  AllPosts(docs[f])[Least(PositionsOf(docs[f], p))]

\* p occurs, and its first occurrence has no summary and a content of at
\* least MIN_CONTENT_LENGTH characters
EligibleId(docs, p) ==
  /\ DocsOf(docs, p) # {}
  /\ FirstCopy(docs, p).summary \in {undefined, <<>>}
  /\ FirstCopy(docs, p).content # NoContent
  /\ FirstCopy(docs, p).content >= MIN_CONTENT_LENGTH

EligibleIds(docs) == {p \in Ids : EligibleId(docs, p)}

\* the run has scanned the documents
Scanned == pc # "ready" /\ auth /\ ~topErr

\* the run has come to the end of main
Completed == pc = "exited" /\ auth /\ ~topErr

Selected(p) == \E k \in 1..Len(entries) : entries[k].post.id = p

RECURSIVE SumUpTo(_, _)
SumUpTo(f, n) == IF n = 0 THEN 0 ELSE f[n] + SumUpTo(f, n - 1)

\* the generation of p returned a text and its write-back has run
WrittenBack(p) == answer[p] # undefined

\* every bucket entry that held p when the run started holds p with a summary
\* that is not the one it started with
Updated(p) ==
  \A f \in DocsOf(disk0, p) : \A k \in PositionsOf(disk0[f], p) :
    /\ k <= Len(AllPosts(disk[f]))
    /\ AllPosts(disk[f])[k].id = p
    /\ Truthy(AllPosts(disk[f])[k].summary)
    /\ AllPosts(disk[f])[k].summary # AllPosts(disk0[f])[k].summary

\* the bucket entries of p in the documents that held p when the run started
CopiesOf(p) ==
  {AllPosts(disk[f])[k] : <<f, k>> \in
     {fk \in Files \X (1..(3 * NumIds + 1)) :
        fk[1] \in DocsOf(disk0, p) /\ fk[2] \in PositionsOf(disk[fk[1]], p)}}

(***************************************************************************)
(* C1.  In one run at most one generation request is sent per post         *)
(* identity, however many documents and buckets hold it; when the run has  *)
(* completed, exactly one was sent for every identity whose index entry is *)
(* eligible and none for any other, so the number of requests is the       *)
(* number of distinct eligible identities.                                 *)
(***************************************************************************)
C1_OneCallPerIdentity ==
  /\ \A p \in Ids : calls[p] <= 1
  /\ Completed =>
       /\ \A p \in Ids : calls[p] = (IF p \in EligibleIds(disk0) THEN 1 ELSE 0)
       /\ SumUpTo(calls, NumIds) = Cardinality(EligibleIds(disk0))

\* a completed run that sent one request for a post held by both documents
\* and by two buckets of one of them
C1_Witness ==
  /\ Completed
  /\ \E p \in Ids :
       /\ calls[p] = 1
       /\ DocsOf(disk0, p) = Files
       /\ Cardinality(PositionsOf(disk0[LATEST], p)) >= 2

(***************************************************************************)
(* C2.  After post P has been generated and written back, all bucket       *)
(* entries of P in the documents of P's index set hold the same summary,   *)
(* the same title_zh and the same title_en.                                *)
(***************************************************************************)
C2_CopiesAgree ==
  \A p \in Ids : WrittenBack(p) =>
    \A a \in CopiesOf(p) : \A b \in CopiesOf(p) :
      /\ a.summary = b.summary
      /\ a.title_zh = b.title_zh
      /\ a.title_en = b.title_en

(***************************************************************************)
(* C3.  The write-back of P saves exactly the documents that hold P, and   *)
(* nothing is saved for a post that was not written back; a document that  *)
(* no write-back saved is as it was when the run started.                  *)
(***************************************************************************)
C3_SavesExactlyHolders ==
  /\ \A p \in Ids : saved[p] = (IF WrittenBack(p) THEN DocsOf(disk0, p) ELSE {})
  /\ \A f \in Files : (\A p \in Ids : f \notin saved[p]) => disk[f] = disk0[f]

\* one post saved the latest document only, another the archive only
C3_Witness ==
  \E p \in Ids : \E q \in Ids :
    /\ WrittenBack(p) /\ saved[p] = {LATEST}
    /\ WrittenBack(q) /\ saved[q] = {ARCHIVE}
    /\ disk0[LATEST].kind = "ok" /\ disk0[ARCHIVE].kind = "ok"

(***************************************************************************)
(* C4.  A run that follows a run in which nothing failed, on the documents *)
(* that run left, sends no generation request and saves no document.       *)
(***************************************************************************)
C4_SecondRunIdle ==
  prevClean =>
    /\ \A p \in Ids : calls[p] = 0 /\ saved[p] = {}
    /\ disk = disk0

\* the second run has ended, and the first one had written a summary
C4_Witness ==
  /\ prevClean
  /\ pc = "exited"
  /\ \E p \in Ids :
       /\ DocsOf(disk, p) # {}
       /\ FirstCopy(disk, p).summary \notin {undefined, <<>>, OldSummary}

(***************************************************************************)
(* C5.  An indexed post is selected for generation if and only if its      *)
(* representative has no summary, has content, and the content has at      *)
(* least MIN_CONTENT_LENGTH characters.                                    *)
(***************************************************************************)
C5_SelectedIffEligible ==
  Scanned => \A p \in Ids : Selected(p) <=> EligibleId(disk0, p)

\* a post with MIN_CONTENT_LENGTH - 1 characters and no summary is left out
\* while another post is selected
C5_Witness ==
  /\ Scanned
  /\ \E p \in Ids :
       /\ DocsOf(disk0, p) # {}
       /\ FirstCopy(disk0, p).content = MIN_CONTENT_LENGTH - 1
       /\ ~Truthy(FirstCopy(disk0, p).summary)
       /\ ~Selected(p)
  /\ \E q \in Ids : Selected(q)

(***************************************************************************)
(* C6.  A bucket entry that holds a summary when a run starts holds the    *)
(* same summary at every later moment of the run.                          *)
(***************************************************************************)
C6_SummariesKept ==
  \A f \in Files : \A k \in 1..Len(AllPosts(disk0[f])) :
    Truthy(AllPosts(disk0[f])[k].summary) =>
      /\ k <= Len(AllPosts(disk[f]))
      /\ AllPosts(disk[f])[k].summary = AllPosts(disk0[f])[k].summary

(***************************************************************************)
(* C7.  When main goes on after a batch, every task of the batch has       *)
(* settled; the failure count has grown by the number of tasks that failed *)
(* and the success count by the number of the others, and the post of      *)
(* every task that did not fail has its summary in all its documents.      *)
(***************************************************************************)
C7_FailuresIsolated ==
  [][(pc = "batch" /\ pc' # "batch") =>
       LET failed == {k \in 1..Len(tasks) : tasks[k].state = "rejected"}
           others == (1..Len(tasks)) \ failed
       IN  /\ Len(tasks) = Len(BatchAt(entries, i))
           /\ \A k \in others : tasks[k].state = "fulfilled"
           /\ failCount' = failCount + Cardinality(failed)
           /\ successCount' = successCount + Cardinality(others)
           /\ \A k \in others :
                WrittenBack(entries[i + k].post.id) /\ Updated(entries[i + k].post.id)
    ]_vars

\* a batch of three has settled: one task failed, two wrote their summaries
C7_Witness ==
  /\ pc = "batch"
  /\ Len(tasks) = BATCH_SIZE
  /\ Cardinality({k \in 1..Len(tasks) : tasks[k].state = "rejected"}) = 1
  /\ Cardinality({k \in 1..Len(tasks) : tasks[k].state = "fulfilled"}) = 2
  /\ \A k \in 1..Len(tasks) :
       tasks[k].state = "fulfilled" => Updated(entries[i + k].post.id)

(***************************************************************************)
(* C8.  The process exits with code 1 exactly when the credential is       *)
(* missing, or an error escaped main, or successCount = 0 and              *)
(* failCount > 0; it exits with code 0 in every other case.                *)
(***************************************************************************)
C8_ExitCode ==
  pc = "exited" =>
    /\ exitCode \in {0, 1}
    /\ exitCode = 1 <=> (~auth \/ topErr \/ (successCount = 0 /\ failCount > 0))

\* a run with a success and a failure has exited with code 0
C8_Witness ==
  /\ pc = "exited"
  /\ exitCode = 0
  /\ successCount > 0
  /\ failCount > 0


(***************************************************************************)
(* C9.  A generation call answered with status 429 is retried: no task     *)
(* fails on a 429 before it has sent RETRIES requests.                     *)
(***************************************************************************)
C9_RateLimitRetried ==
  \A k \in 1..Len(tasks) :
    (tasks[k].state = "rejected" /\ tasks[k].reason = "API 429") =>
      calls[entries[i + k].post.id] = RETRIES

(***************************************************************************)
(* C10.  No write-back is lost: at every moment, every post whose          *)
(* generation has returned and been written back has its summary in all    *)
(* the documents that hold it, whatever the order in which the tasks of    *)
(* its batch completed and whichever posts share those documents.          *)
(***************************************************************************)
C10_NoLostUpdate ==
  \A p \in Ids : WrittenBack(p) => Updated(p)

\* two tasks of one batch whose posts share a document have both completed
C10_Witness ==
  /\ pc = "batch"
  /\ \E k \in 1..Len(tasks) : \E m \in 1..Len(tasks) :
       /\ k < m
       /\ tasks[k].state = "fulfilled"
       /\ tasks[m].state = "fulfilled"
       /\ entries[i + k].files \cap entries[i + m].files # {}
       /\ Updated(entries[i + k].post.id)
       /\ Updated(entries[i + m].post.id)

(***************************************************************************)
(* C11.  A killed run can be resumed: when the run that follows a killed   *)
(* run has completed with every generation successful, every bucket entry  *)
(* of every identity that was eligible when the killed run started holds a *)
(* summary, in every document that holds the identity; this wherever the   *)
(* first run was killed, between two saves of one write-back included.     *)
(***************************************************************************)
C11_ResumableAfterKill ==
  (before.killed /\ Completed /\ exitCode = 0 /\ failCount = 0) =>
    \A p \in EligibleIds(before.disk) :
      \A f \in DocsOf(disk, p) : \A k \in PositionsOf(disk[f], p) :
        Truthy(AllPosts(disk[f])[k].summary)

(***************************************************************************)
(* C12.  Batches run one after the other: whenever generation requests are *)
(* sent, no task is open and every request sent before has settled and    *)
(* been counted as a success or as a failure.                              *)
(***************************************************************************)
C12_BatchesSequential ==
  [][(\E p \in Ids : calls'[p] > calls[p]) =>
       /\ tasks = <<>>
       /\ SumUpTo(calls, NumIds) = successCount + failCount
    ]_vars

\* the requests of the second batch are on their way after a first batch of
\* three in which a task failed
C12_Witness ==
  /\ pc = "batch"
  /\ i = BATCH_SIZE
  /\ SumUpTo(calls, NumIds) > BATCH_SIZE
  /\ successCount + failCount = BATCH_SIZE
  /\ failCount >= 1
  /\ \E k \in 1..Len(tasks) : tasks[k].state = "fetching"

(***************************************************************************)
(* C13.  The write-back is not deferred: while a later batch runs, every   *)
(* post of the batches before whose generation returned a text has its     *)
(* summary saved in all the documents that hold it, and the posts saved    *)
(* that way are as many as the successes counted.                          *)
(***************************************************************************)
C13_WriteBackNotDeferred ==
  (Scanned /\ pc = "batch") =>
    LET early == {entries[k].post.id : k \in 1..i}
        onDisk == {p \in early : Updated(p) /\ saved[p] = DocsOf(disk0, p)}
    IN  /\ \A p \in early : answer[p] # undefined => p \in onDisk
        /\ Cardinality(onDisk) = successCount

\* the second batch is in flight; of the first, two posts are saved in both
\* documents and one failed
C13_Witness ==
  /\ pc = "batch"
  /\ i = BATCH_SIZE
  /\ successCount = 2
  /\ \E k \in 1..Len(tasks) : tasks[k].state = "fetching"
  /\ \E p \in {entries[k].post.id : k \in 1..i} :
       answer[p] # undefined /\ Updated(p) /\ saved[p] = Files

(***************************************************************************)
(* C15.  A run of b >= 1 batches waits b - 1 times: the batch in progress  *)
(* has been preceded by one delay per earlier batch, and a completed run   *)
(* has waited once less than it had batches, so never after the last one.  *)
(***************************************************************************)
C15_DelaysBetweenBatches ==
  /\ (Scanned /\ pc = "batch") => delays = i \div BATCH_SIZE
  /\ (Completed /\ entries # <<>>) =>
       delays = ((Len(entries) + BATCH_SIZE - 1) \div BATCH_SIZE) - 1

\* a completed run of two batches that waited once
C15_Witness ==
  /\ Completed
  /\ Len(entries) > BATCH_SIZE
  /\ delays = 1

(***************************************************************************)
(* C14.  A document that cannot be saved during the write-back of P costs  *)
(* that document only: once the task of P has failed on a save, at most    *)
(* one document that held P is left without P's summary saved in it.       *)
(***************************************************************************)
C14_OnlyFailedDocumentSkipped ==
  \A k \in 1..Len(tasks) :
    (pc = "batch" /\ tasks[k].state = "rejected" /\ tasks[k].reason = "save failed") =>
      LET p == entries[i + k].post.id
          reached == {f \in saved[p] :
                        \A n \in PositionsOf(disk[f], p) :
                          Truthy(AllPosts(disk[f])[n].summary)}
      IN  Cardinality(DocsOf(disk0, p) \ reached) <= 1

(***************************************************************************)
(* C16.  parseBilingualContent maps the parts of the text split on the     *)
(* separator "\n---\n" by their number.  As stated: with four parts or     *)
(* more, part 0 is titleZh, part 1 summaryZh, part 2 titleEn and the parts *)
(* from 3 on, joined again with the separator, summaryEn; with two or      *)
(* three parts, part 0 is summaryZh, the other parts joined again are      *)
(* summaryEn, and there is no title; with one part the whole text is       *)
(* summaryEn and the other three fields are absent.                        *)
(***************************************************************************)
C16_FieldsAreParts ==
  pc \in {"parsed", "written"} =>
    LET parts == Split(raw, SEPARATOR)
        n == Len(parts)
    IN  IF n >= 4 THEN
          /\ fields.titleZh = parts[1]
          /\ fields.summaryZh = parts[2]
          /\ fields.titleEn = parts[3]
          /\ fields.summaryEn = Join(SubSeq(parts, 4, n), SEPARATOR)
        ELSE IF n >= 2 THEN
          /\ fields.titleZh = undefined
          /\ fields.summaryZh = parts[1]
          /\ fields.titleEn = undefined
          /\ fields.summaryEn = Join(SubSeq(parts, 2, n), SEPARATOR)
        ELSE
          /\ fields.titleZh = undefined
          /\ fields.summaryZh = undefined
          /\ fields.titleEn = undefined
          /\ fields.summaryEn = raw

\* C16 as the code has it: with two parts or more every field is its part,
\* or its parts joined again, with the white space at both ends removed;
\* with one part summaryEn is the text as it is.
C16_FieldsAreTrimmedParts ==
  pc \in {"parsed", "written"} =>
    LET parts == Split(raw, SEPARATOR)
        n == Len(parts)
    IN  IF n >= 4 THEN
          /\ fields.titleZh = Trim(parts[1])
          /\ fields.summaryZh = Trim(parts[2])
          /\ fields.titleEn = Trim(parts[3])
          /\ fields.summaryEn = Trim(Join(SubSeq(parts, 4, n), SEPARATOR))
        ELSE IF n >= 2 THEN
          /\ fields.titleZh = undefined
          /\ fields.summaryZh = Trim(parts[1])
          /\ fields.titleEn = undefined
          /\ fields.summaryEn = Trim(Join(SubSeq(parts, 2, n), SEPARATOR))
        ELSE
          /\ fields.titleZh = undefined
          /\ fields.summaryZh = undefined
          /\ fields.titleEn = undefined
          /\ fields.summaryEn = raw

\* a parsed text of five parts: the first is a line break and gives an
\* empty title, the last two are joined again and lose the line break that
\* the empty fourth part left in front
C16_Witness ==
  /\ pc = "parsed"
  /\ Len(Split(raw, SEPARATOR)) = 5
  /\ Split(raw, SEPARATOR)[1] = <<NL>>
  /\ Split(raw, SEPARATOR)[5] = <<"a">>
  /\ fields.titleZh = <<>>
  /\ fields.summaryEn = <<"-", "-", "-", NL, "a">>

(***************************************************************************)
(* C17.  The write-back sets the summary of every bucket entry of the post *)
(* to the Chinese summary, the separator and the English summary when the  *)
(* parser found both non-empty, and to the text as it came otherwise; it   *)
(* sets title_zh and title_en only when the parser found them, and leaves  *)
(* them as they were otherwise; the summary written is never empty.  The   *)
(* entries of other posts are left as they were.                           *)
(***************************************************************************)
C17_SummaryWritten ==
  pc = "written" =>
    /\ Len(rewritten.hot) = Len(sample.hot)
    /\ Len(rewritten.top) = Len(sample.top)
    /\ Len(rewritten.new) = Len(sample.new)
    /\ \A k \in 1..Len(AllPosts(sample)) :
         LET old == AllPosts(sample)[k]
             new == AllPosts(rewritten)[k]
             both == Truthy(fields.summaryZh) /\ Truthy(fields.summaryEn)
         IN  IF old.id # 1 THEN new = old
             ELSE /\ new.id = old.id
                  /\ new.content = old.content
                  /\ new.summary = (IF both
                                    THEN fields.summaryZh \o SEPARATOR \o fields.summaryEn
                                    ELSE raw)
                  /\ Truthy(new.summary)
                  /\ new.title_zh = (IF Truthy(fields.titleZh) THEN fields.titleZh
                                     ELSE old.title_zh)
                  /\ new.title_en = (IF Truthy(fields.titleEn) THEN fields.titleEn
                                     ELSE old.title_en)

\* a text of two parts whose Chinese part is empty has been written as it
\* came, and the titles are as they were
C17_Witness ==
  /\ pc = "written"
  /\ Len(Split(raw, SEPARATOR)) = 2
  /\ fields.summaryZh = <<>>
  /\ Truthy(fields.summaryEn)
  /\ rewritten.hot[1].summary = raw
  /\ rewritten.top[1].summary = raw
  /\ rewritten.top[1].title_zh = OldTitleZh
  /\ rewritten.hot[1].title_zh = undefined

(***************************************************************************)
(* C18.  The post index has one entry per identity that some bucket entry  *)
(* of some document holds; the documents of the entry are the documents    *)
(* that hold the identity; its post is the first occurrence, in the order  *)
(* of the documents, then hot, top, new, then the position; a post without *)
(* identity is in no entry, and a file that is absent or has no feeds adds *)
(* nothing.  The entries that a run works on are entries of that index.    *)
(***************************************************************************)
C18_IndexOfIdentities ==
  /\ ~ScanThrows(listAllDataFiles) =>
       LET map == buildPostMap(listAllDataFiles)
       IN  /\ \A k \in 1..Len(map) : \A m \in 1..Len(map) :
                map[k].post.id = map[m].post.id => k = m
           /\ {map[k].post.id : k \in 1..Len(map)} = {p \in Ids : DocsOf(disk, p) # {}}
           /\ \A k \in 1..Len(map) :
                /\ map[k].post.id # NoId
                /\ map[k].files = DocsOf(disk, map[k].post.id)
                /\ map[k].post = FirstCopy(disk, map[k].post.id)
  /\ Scanned =>
       \A k \in 1..Len(entries) :
         /\ entries[k].files = DocsOf(disk0, entries[k].post.id)
         /\ entries[k].post = FirstCopy(disk0, entries[k].post.id)

\* a run works on a post that both documents hold; the copy of the second
\* document is not the copy the entry has
C18_Witness ==
  /\ Scanned
  /\ \E k \in 1..Len(entries) :
       /\ entries[k].files = Files
       /\ \E n \in PositionsOf(disk0[ARCHIVE], entries[k].post.id) :
            AllPosts(disk0[ARCHIVE])[n] # entries[k].post

(***************************************************************************)
(* C19.  Without the credential the script exits with code 1 and does      *)
(* nothing else: it lists and loads no document (so no corrupt document    *)
(* makes it fail, and it finds no post), sends no request and saves        *)
(* nothing.                                                                *)
(***************************************************************************)
C19_NoWorkWithoutToken ==
  ~auth =>
    /\ pc \in {"ready", "exited"}
    /\ pc = "exited" => exitCode = 1
    /\ ~topErr
    /\ entries = <<>>
    /\ tasks = <<>>
    /\ calls = NoCalls
    /\ saved = NoSaves
    /\ disk = disk0

\* the script has exited without the credential on documents that hold a
\* post to summarise
C19_Witness ==
  /\ ~auth
  /\ pc = "exited"
  /\ exitCode = 1
  /\ EligibleIds(disk) # {}

(***************************************************************************)
(* C20.  The batches are consecutive slices of the list of eligible posts: *)
(* the posts sent so far are the first ones of the list, every batch       *)
(* before the one in progress had BATCH_SIZE posts, the batch in progress  *)
(* has between 1 and BATCH_SIZE posts and fewer than BATCH_SIZE only when  *)
(* it is the last, and no post is sent twice; when the run has completed   *)
(* every post of the list has been sent once.                              *)
(***************************************************************************)
C20_BatchesPartition ==
  /\ (Scanned /\ pc = "batch") =>
       /\ Len(tasks) \in 1..BATCH_SIZE
       /\ i = BATCH_SIZE * delays
       /\ Len(tasks) < BATCH_SIZE => i + Len(tasks) = Len(entries)
       /\ \A k \in 1..Len(entries) :
            calls[entries[k].post.id] = (IF k <= i + Len(tasks) THEN 1 ELSE 0)
  /\ Completed =>
       \A k \in 1..Len(entries) : calls[entries[k].post.id] = 1

\* the second and last batch, of one post or two, after a batch of three
C20_Witness ==
  /\ Scanned
  /\ pc = "batch"
  /\ i = BATCH_SIZE
  /\ Len(tasks) < BATCH_SIZE
  /\ i + Len(tasks) = Len(entries)

(***************************************************************************)
(* C21.  The write-back of a post changes nothing but the summary,         *)
(* title_zh and title_en of the bucket entries of that post: the entries   *)
(* of other posts, the other fields of the post's entries, the length and  *)
(* the order of every bucket, and the document's date, fetchedAt and stats *)
(* are in the saved document as they were in the document reloaded.        *)
(***************************************************************************)
C21_WriteBackFrame ==
  pc = "written" =>
    /\ DOMAIN rewritten = DOMAIN sample
    /\ rewritten.kind = sample.kind
    /\ rewritten.date = sample.date
    /\ rewritten.fetchedAt = sample.fetchedAt
    /\ rewritten.stats = sample.stats
    /\ \A feed \in {Feeds[n] : n \in 1..Len(Feeds)} :
         /\ Len(Bucket(rewritten, feed)) = Len(Bucket(sample, feed))
         /\ \A k \in 1..Len(Bucket(sample, feed)) :
              LET old == Bucket(sample, feed)[k]
                  new == Bucket(rewritten, feed)[k]
              IN  /\ DOMAIN new = DOMAIN old
                  /\ \A field \in DOMAIN old \ {"summary", "title_zh", "title_en"} :
                       new[field] = old[field]
                  /\ old.id # 1 => new = old

\* a text with titles has been written: both entries of post 1 have the
\* new title, post 2 beside them has its old one
C21_Witness ==
  /\ pc = "written"
  /\ Truthy(fields.titleZh)
  /\ rewritten.hot[1].title_zh = fields.titleZh
  /\ rewritten.top[1].title_zh = fields.titleZh
  /\ rewritten.top[1].title_zh # sample.top[1].title_zh
  /\ rewritten.hot[2] = sample.hot[2]
  /\ rewritten.hot[1].title = sample.hot[1].title

(***************************************************************************)
(* C22.  At the final report every eligible index entry found at the start *)
(* of the run has been counted once, as a success or as a failure, and no  *)
(* more successes are counted than there are entries whose generation      *)
(* returned a text and whose write-back saved every document that held the *)
(* post.                                                                   *)
(***************************************************************************)
C22_EveryEntryCountedOnce ==
  Completed =>
    LET ids == {entries[k].post.id : k \in 1..Len(entries)}
        done == {p \in ids : /\ WrittenBack(p)
                              /\ saved[p] = DocsOf(disk0, p)
                              /\ Updated(p)}
    IN  /\ ids = EligibleIds(disk0)
        /\ Cardinality(ids) = Len(entries)
        /\ successCount + failCount = Len(entries)
        /\ successCount <= Cardinality(done)
        /\ failCount >= Cardinality(ids \ done)

\* a completed run on two batches with a success, and with a failure whose
\* write-back saved one of its two documents before it failed
C22_Witness ==
  /\ Completed
  /\ Len(entries) > BATCH_SIZE
  /\ successCount >= 1
  /\ failCount >= 1
  /\ \E k \in 1..Len(entries) :
       LET p == entries[k].post.id
       IN  /\ ~WrittenBack(p)
           /\ saved[p] # {}
           /\ saved[p] # DocsOf(disk0, p)

(***************************************************************************)
(* C23.  fetchWithRetry sends at most RETRIES = 3 requests and always      *)
(* comes to an end: it goes on only after a 429; it returns the body of    *)
(* the first response that is ok; after the request number n (from 0)      *)
(* answered 429 it waits 2000 * 2^n ms; on any other status it throws at   *)
(* once; and it throws 'Max retries reached' exactly when all three        *)
(* requests were answered 429.                                             *)
(***************************************************************************)
C23_FetchWithRetry ==
  pc = "fetch" =>
    LET n == Len(fetcher.statuses)
        last == fetcher.statuses[n]
        limited == {k \in 1..n : fetcher.statuses[k] = 429}
    IN  /\ n <= 3
        /\ \A k \in 1..(n - 1) : k \in limited
        /\ Len(fetcher.waits) = Cardinality(limited)
        /\ \A k \in 1..Len(fetcher.waits) : fetcher.waits[k] = 2000 * (2 ^ (k - 1))
        /\ fetcher.at = "returned" <=> (n >= 1 /\ last \in 200..299)
        /\ fetcher.at = "returned" => fetcher.result = fetcher.received
        /\ (n >= 1 /\ last \notin (200..299) \cup {429}) =>
             (fetcher.at = "thrown" /\ fetcher.error = "HTTP")
        /\ fetcher.error = "Max retries reached" <=>
             (fetcher.at = "thrown" /\ n = 3 /\ limited = 1..3)
        /\ fetcher.at \in {"request", "waiting", "returned", "thrown"}
        /\ fetcher.at \in {"request", "waiting"} =>
             (ENABLED NextFetch /\ n + fetcher.i < 2 * 3)

\* three requests answered 429, three waits, and the throw
C23_Witness ==
  /\ pc = "fetch"
  /\ fetcher.at = "thrown"
  /\ fetcher.error = "Max retries reached"
  /\ fetcher.statuses = <<429, 429, 429>>
  /\ fetcher.waits = <<2000, 4000, 8000>>

(***************************************************************************)
(* C24.  The stored summary can be read back: when the parser found a      *)
(* Chinese and an English summary that are not empty, parsing the summary  *)
(* that the write-back stored gives the same Chinese summary and the same  *)
(* English summary, separator lines inside the English summary included.   *)
(***************************************************************************)
C24_StoredSummaryRoundTrip ==
  (pc = "written" /\ Truthy(fields.summaryZh) /\ Truthy(fields.summaryEn)) =>
    LET stored == rewritten.hot[1].summary
        again == parseBilingualContent(stored)
    IN  /\ stored = fields.summaryZh \o SEPARATOR \o fields.summaryEn
        /\ again.summaryZh = fields.summaryZh
        /\ again.summaryEn = fields.summaryEn

\* the Chinese summary ends with a line of three dashes, which the
\* separator after it would make a separator line
EndsWithDashes(zh) ==
  /\ Len(zh) >= 4
  /\ SubSeq(zh, Len(zh) - 3, Len(zh)) = <<NL, "-", "-", "-">>

\* C24 as the code has it: the stored summary is read back as it was
\* written when the English summary holds at most one separator line and
\* the Chinese summary does not end with a line of three dashes; with two
\* separator lines or more in the English summary the stored text has four
\* parts and the parser takes the first for a title.
C24_RoundTripUpToOneSeparator ==
  (/\ pc = "written"
   /\ Truthy(fields.summaryZh)
   /\ Truthy(fields.summaryEn)
   /\ Len(Split(fields.summaryEn, SEPARATOR)) <= 2
   /\ ~EndsWithDashes(fields.summaryZh)) =>
    LET again == parseBilingualContent(rewritten.hot[1].summary)
    IN  /\ again.summaryZh = fields.summaryZh
        /\ again.summaryEn = fields.summaryEn
        /\ again.titleZh = undefined
        /\ again.titleEn = undefined

\* a response in the prompt's format whose English summary holds one
\* separator line has been stored, and the stored summary reads back
C24_Witness ==
  /\ pc = "written"
  /\ fields.summaryZh = <<"Z">>
  /\ Len(Split(fields.summaryEn, SEPARATOR)) = 2
  /\ Len(Split(rewritten.hot[1].summary, SEPARATOR)) = 3
  /\ parseBilingualContent(rewritten.hot[1].summary).summaryEn = fields.summaryEn

====
